---- MODULE Spec2Model ----
(***************************************************************************)
(* Video capture service: the single recording session (RecordingState),   *)
(* its monitor thread (_monitor_recording) and the HTTP handlers that      *)
(* drive it.                                                               *)
(*                                                                         *)
(* Two builds of the same controller live in the repository:               *)
(*   "service": video-capture-service/recording_manager.py + api_server.py *)
(*   "legacy" : capture_video.py (its RecordingState is also the one of    *)
(*              recording_manager.py at the top of the tree)               *)
(* `variant` says which one runs.                                          *)
(*                                                                         *)
(* Granularity.  _monitor_recording reads is_recording, duration,          *)
(* start_time, max_file_size and filename WITHOUT the lock, so every write *)
(* of those fields by start_recording and every read of them by the        *)
(* monitor is a step of its own.  What a thread does under the lock to     *)
(* fields the monitor never reads (the device handles) is taken in one     *)
(* step with the neighbouring write, and stop_recording, whose only write  *)
(* the monitor can see is is_recording = False, is one step.               *)
(*                                                                         *)
(* Time.  The clock counts whole seconds.  The program uses time.time()    *)
(* only as time.time() - self.start_time, which `since_start` holds,       *)
(* capped at ElapsedCap (no limit is larger).  time.sleep(1) wakes exactly *)
(* one second later, and no time passes while a monitor is between two     *)
(* sleeps or while the lock is held (device calls are bounded synchronous  *)
(* operations).                                                            *)
(***************************************************************************)
EXTENDS Integers, Sequences, FiniteSets, TLC

\* ---------------------------------------------------------------- bounds
NumClients == 2        \* concurrent request-handling threads
MaxStarts == 2         \* recording ids generate_ulid() hands out
MaxDuration == 2       \* largest duration limit a request carries
MaxSizeLimit == 1      \* largest max_file_size a request carries
MaxFileSize == 1       \* largest size an output file grows to

\* ------------------------------------------------------------ value sets
None == <<>>
Some(v) == <<v>>
Val(o) == o[1]

Clients == 1..NumClients
Ids == 1..MaxStarts              \* recording ids; the monitor of session i is thread i
Variants == {"service", "legacy"}
Durations == {None} \cup {Some(d) : d \in 1..MaxDuration}
SizeLimits == {None} \cup {Some(n) : n \in 1..MaxSizeLimit}
ElapsedCap == MaxDuration + 1

\* Where the device can fail inside start_recording.
StartFaults == {"none", "open", "configure", "start"}
\* Whether picam2.stop_recording() / picam2.stop() raised inside stop_recording.
StopFaults == {"none", "raised"}

VARIABLES
    variant,          \* which build runs
    \* RecordingState.__init__ (start_time: see since_start)
    is_recording, recording_id, picam2, encoder, output, filename,
    duration, max_file_size, lock,
    \* environment
    since_start,      \* time.time() - self.start_time; None while start_time is None
    file,             \* the filesystem at the path self.filename: exists, size
    next_id,          \* generate_ulid()
    \* request-handling threads
    pc, loc, resp,
    \* monitor threads
    wpc, wloc,
    \* history: the start_recording call (by its recording id) that last wrote
    \* self.duration, self.max_file_size and self.start_time
    written_by

state_vars == <<is_recording, recording_id, picam2, encoder, output, filename,
                duration, max_file_size>>
env_vars == <<since_start, file, next_id>>
vars == <<variant, is_recording, recording_id, picam2, encoder, output, filename,
          duration, max_file_size, lock, since_start, file, next_id,
          pc, loc, resp, wpc, wloc, written_by>>

\* The locals of a request thread.
NoLoc == [kind |-> "none", rid |-> None, saved_id |-> None, saved_name |-> None,
          ret |-> None, exc |-> "none", fault |-> "none", after_fail |-> FALSE]
\* The HTTP response of a request thread (code 0: none yet).
NoResp == [code |-> 0, is_recording |-> FALSE, recording_id |-> None,
           filename |-> None, elapsed_seconds |-> None, duration_limit |-> None,
           max_file_size |-> None, current_file_size |-> None]
\* The locals of a monitor thread.
NoWloc == [elapsed |-> 0, file_size |-> 0]
NoFile == [exists |-> FALSE, size |-> 0]
NoWriter == [duration |-> None, max_file_size |-> None, start_time |-> None]

Init ==
    /\ variant \in Variants
    /\ is_recording = FALSE
    /\ recording_id = None
    /\ picam2 = None
    /\ encoder = None
    /\ output = None
    /\ filename = None
    /\ duration = None
    /\ max_file_size = None
    /\ lock = None
    /\ since_start = None
    /\ file = NoFile
    /\ next_id = 1
    /\ pc = [c \in Clients |-> "idle"]
    /\ loc = [c \in Clients |-> NoLoc]
    /\ resp = [c \in Clients |-> NoResp]
    /\ wpc = [w \in Ids |-> "unborn"]
    /\ wloc = [w \in Ids |-> NoWloc]
    /\ written_by = NoWriter

\* ------------------------------------------------------------- helpers
\* (mutant) start_recording runs its body without taking the lock
ClientLockNotTaken(c) == None

\* with self.lock, entered by request thread c
ClientLock(c) == <<"client", c>>

SetLoc(c, f, v) == [loc EXCEPT ![c][f] = v]

\* Sending a response touches nothing but the thread's own locals: it is taken
\* before anything else moves.
NoResponsePending == \A c \in Clients : pc[c] # "respond"

\* os.path.basename(path): the output directory is dropped, the file name
\* {prefix}_{timestamp}_{recording_id}.mp4 stays; a file is identified by its id.
Basename(path) == path

\* ---------------------------------------------- POST /record/start handler
\* The status the start handler answers with when its own pre-check raised
\* HTTPException(409).  api_server.py re-raises HTTPException as it is;
\* capture_video.py catches it with `except Exception` and answers 500.
PreCheckCode(v) == IF v = "service" THEN 409 ELSE 500

\* The status for an exception raised by RecordingState.start_recording.
StartErrorCode(exc) == IF exc = "ValueError" THEN 409 ELSE 500

\* A request is taken up only while generate_ulid() has ids left for it.
IdsLeft == next_id <= MaxStarts

\* with recording_state.lock: if recording_state.is_recording: raise 409;
\* then recording_id = generate_ulid(), filename, output_dir, filepath
\* (local to the thread, so taken in the same step as the check)
HsCheck(c) ==
    /\ NoResponsePending
    /\ pc[c] = "idle"
    /\ IdsLeft
    /\ lock = None
    /\ IF is_recording
         THEN /\ pc' = [pc EXCEPT ![c] = "respond"]
              /\ loc' = [loc EXCEPT ![c] = [NoLoc EXCEPT !.kind = "start"]]
              /\ resp' = [resp EXCEPT ![c] = [NoResp EXCEPT !.code = PreCheckCode(variant)]]
              /\ next_id' = next_id
         ELSE /\ pc' = [pc EXCEPT ![c] = "sr_acq"]
              /\ loc' = [loc EXCEPT ![c] = [NoLoc EXCEPT !.kind = "start",
                                                         !.rid = Some(next_id)]]
              /\ next_id' = next_id + 1
              /\ resp' = resp
    /\ UNCHANGED <<variant, written_by, state_vars, lock, since_start, file, wpc, wloc>>

\* --------------------------------------- RecordingState.start_recording
\* (mutant) the is_recording check under the lock is missing
AlreadyRecordingUnchecked == FALSE

\* if self.is_recording: raise ValueError("Recording already in progress")
AlreadyRecording == is_recording

\* The last start_recording call that got past the is_recording check has
\* returned without starting its monitor: it failed in the device.
AfterFailedStart ==
    lock = None /\ recording_id # None /\ wpc[Val(recording_id)] = "unborn"

\* with self.lock: the is_recording check; then
\* self.recording_id = recording_id; self.filename = filename
\* (the new name holds the fresh id: no file exists at that path yet)
SrAcquire(c) ==
    /\ NoResponsePending
    /\ pc[c] = "sr_acq"
    /\ lock = None
    /\ IF AlreadyRecording
         THEN /\ loc' = SetLoc(c, "exc", "ValueError")
              /\ resp' = [resp EXCEPT ![c] = [NoResp EXCEPT !.code = StartErrorCode("ValueError")]]
              /\ pc' = [pc EXCEPT ![c] = "respond"]
              /\ UNCHANGED <<lock, recording_id, filename, file>>
         ELSE /\ lock' = ClientLock(c)
              /\ recording_id' = loc[c].rid
              /\ filename' = loc[c].rid
              /\ file' = NoFile
              /\ pc' = [pc EXCEPT ![c] = "sr_duration"]
              /\ loc' = SetLoc(c, "after_fail", AfterFailedStart)
              /\ resp' = resp
    /\ UNCHANGED <<variant, written_by, is_recording, picam2, encoder, output, duration, max_file_size,
                   since_start, next_id, wpc, wloc>>

\* self.duration = duration  (request.duration, drawn here where it is first used)
SrDuration(c) ==
    /\ NoResponsePending
    /\ pc[c] = "sr_duration"
    /\ \E d \in Durations : duration' = d
    /\ written_by' = [written_by EXCEPT !.duration = loc[c].rid]
    /\ pc' = [pc EXCEPT ![c] = "sr_maxsize"]
    /\ UNCHANGED <<variant, is_recording, recording_id, picam2, encoder, output, filename,
                   max_file_size, lock, env_vars, loc, resp, wpc, wloc>>

\* self.max_file_size = max_file_size  (request.max_file_size, drawn here)
SrMaxSize(c) ==
    /\ NoResponsePending
    /\ pc[c] = "sr_maxsize"
    /\ \E m \in SizeLimits : max_file_size' = m
    /\ written_by' = [written_by EXCEPT !.max_file_size = loc[c].rid]
    /\ pc' = [pc EXCEPT ![c] = "sr_starttime"]
    /\ UNCHANGED <<variant, is_recording, recording_id, picam2, encoder, output, filename,
                   duration, lock, env_vars, loc, resp, wpc, wloc>>

\* self.start_time = time.time()
SrStartTime(c) ==
    /\ NoResponsePending
    /\ pc[c] = "sr_starttime"
    /\ since_start' = Some(0)
    /\ written_by' = [written_by EXCEPT !.start_time = loc[c].rid]
    /\ pc' = [pc EXCEPT ![c] = "sr_device"]
    /\ UNCHANGED <<variant, state_vars, lock, file, next_id, loc, resp,
                   wpc, wloc>>

\* The device handles a failure at `place` finds acquired: Picamera2() is the
\* "open" step, encoder and output are created after configure().
Acquired(place, rid) ==
    [picam2 |-> IF place = "open" THEN None ELSE rid,
     encoder |-> IF place \in {"open", "configure"} THEN None ELSE rid,
     output |-> IF place \in {"open", "configure"} THEN None ELSE rid]

\* The value a device handle field has after the failure path of
\* start_recording.  The service build's `except Exception` block sets
\* picam2, encoder and output to None; the legacy build has no such block.
RolledBack(v, handle) == IF v = "service" THEN None ELSE handle

\* (mutant) is_recording is raised before the device calls and the failure
\* path does not lower it
FailedStartStaysRecording(v, cur) == TRUE

\* is_recording after the failure path: the service build's except block
\* sets it to False; the legacy build leaves it as it is.
FailedStartRecording(v, cur) == IF v = "service" THEN FALSE ELSE cur

\* (mutant) the lock is taken with acquire() and released only at the end
\* of the body: an exception leaves it held
LockAfterStartHeldOnFailure(c, place) == IF place = "none" THEN None ELSE ClientLock(c)

\* The lock once start_recording has left `with self.lock`, by return or by
\* the exception of a device call that failed at `place`.
LockAfterStart(c, place) == None

\* (mutant) start_recording returns without starting the monitor thread
MonitorNotSpawned == "unborn"

\* self.monitor_thread = threading.Thread(target=self._monitor_recording,
\* daemon=True); self.monitor_thread.start()  -- the new thread is at the
\* first test of its loop condition
MonitorAtSpawn == "loop"

\* The camera init / configure / start sequence, up to the first call that
\* raises (if any).
\*   all calls succeed: self.is_recording = True; the monitor thread is
\*     started; the lock is released; the handler answers 200.
\*   a call raises: (service) except Exception: clean up, raise; the exception
\*     leaves `with self.lock`; the handler answers 500.
SrDevice(c) ==
    /\ NoResponsePending
    /\ pc[c] = "sr_device"
    /\ \E place \in StartFaults :
          IF place = "none"
            THEN /\ picam2' = loc[c].rid
                 /\ encoder' = loc[c].rid
                 /\ output' = loc[c].rid
                 /\ is_recording' = TRUE
                 /\ wpc' = [wpc EXCEPT ![Val(loc[c].rid)] = MonitorAtSpawn]
                 /\ resp' = [resp EXCEPT ![c] = [NoResp EXCEPT !.code = 200,
                                                      !.recording_id = loc[c].rid,
                                                      !.filename = Basename(loc[c].rid)]]
                 /\ loc' = loc
                 /\ lock' = LockAfterStart(c, place)
            ELSE LET got == Acquired(place, loc[c].rid) IN
                 /\ lock' = LockAfterStart(c, place)
                 /\ picam2' = RolledBack(variant, got.picam2)
                 /\ encoder' = RolledBack(variant, got.encoder)
                 /\ output' = RolledBack(variant, got.output)
                 /\ is_recording' = FailedStartRecording(variant, is_recording)
                 /\ wpc' = wpc
                 /\ resp' = [resp EXCEPT ![c] =
                               [NoResp EXCEPT !.code = StartErrorCode("DeviceError")]]
                 /\ loc' = [loc EXCEPT ![c].exc = "DeviceError", ![c].fault = place]
    /\ pc' = [pc EXCEPT ![c] = "respond"]
    /\ UNCHANGED <<variant, written_by, recording_id, filename, duration, max_file_size,
                   since_start, file, next_id, wloc>>

\* The response has been sent; the thread is free for the next request.
Respond(c) ==
    /\ pc[c] = "respond"
    /\ pc' = [pc EXCEPT ![c] = "idle"]
    /\ loc' = [loc EXCEPT ![c] = NoLoc]
    /\ resp' = [resp EXCEPT ![c] = NoResp]
    /\ UNCHANGED <<variant, written_by, state_vars, lock, env_vars, wpc, wloc>>


\* ---------------------------------------- RecordingState.stop_recording
\* (mutant) is_recording is lowered inside the try block, after the device
\* calls, instead of in finally
StopLeavesRecordingOnFault(fault) == fault # "none"

\* finally: self.is_recording = False
StopLeavesRecording(fault) == FALSE

\* finally: self.picam2 = None; self.encoder = None; self.output = None
StopLeavesHandle(fault, handle) == None

\* (mutant) stop_recording returns self.recording_id whether or not a
\* recording was in progress
StopReturnStale(active, id) == id

\* What stop_recording returns when it finds is_recording = active and
\* recording_id = id.
StopReturn(active, id) == IF active THEN id ELSE None

\* (mutant) stop_recording acquires the lock and returns without releasing it
LockAfterStopHeld == <<"stop">>

\* The lock once stop_recording has returned: `with self.lock` has released
\* it, on the early return and after the finally clause alike.
LockAfterStop == None

\* with self.lock: if not self.is_recording: return None;
\* try: device stop / except: print / finally: clear; return recording_id.
\* The whole call, for whichever thread runs it: it waits for the lock, and
\* the one write other threads can see without the lock is is_recording.
StopRecording(fault) ==
    /\ lock = None
    /\ IF is_recording
         THEN /\ is_recording' = StopLeavesRecording(fault)
              /\ picam2' = StopLeavesHandle(fault, picam2)
              /\ encoder' = StopLeavesHandle(fault, encoder)
              /\ output' = StopLeavesHandle(fault, output)
         ELSE UNCHANGED <<is_recording, picam2, encoder, output>>
    /\ lock' = LockAfterStop
    /\ UNCHANGED <<variant, written_by, recording_id, filename, duration, max_file_size,
                   since_start, file, next_id>>

\* ----------------------------------------------- POST /record/stop handler
\* with recording_state.lock: 404 when idle, else save filename and recording_id
HpCheck(c) ==
    /\ NoResponsePending
    /\ pc[c] = "idle"
    /\ lock = None
    /\ IF ~is_recording
         THEN /\ pc' = [pc EXCEPT ![c] = "respond"]
              /\ resp' = [resp EXCEPT ![c] = [NoResp EXCEPT !.code = 404]]
              /\ loc' = [loc EXCEPT ![c] = [NoLoc EXCEPT !.kind = "stop"]]
         ELSE /\ pc' = [pc EXCEPT ![c] = "hp_stop"]
              /\ loc' = [loc EXCEPT ![c] = [NoLoc EXCEPT !.kind = "stop",
                                                         !.saved_name = Basename(filename),
                                                         !.saved_id = recording_id]]
              /\ resp' = resp
    /\ UNCHANGED <<variant, written_by, state_vars, lock, env_vars, wpc, wloc>>

\* if stopped_id is None or stopped_id != recording_id: 500, else 200
StopCode(stopped_id, saved_id) ==
    IF stopped_id = None \/ stopped_id # saved_id THEN 500 ELSE 200

\* The handler's answer once stop_recording has returned stopped_id.
StopResponse(c, stopped_id) ==
    IF StopCode(stopped_id, loc[c].saved_id) = 200
      THEN [NoResp EXCEPT !.code = 200, !.recording_id = loc[c].saved_id,
                          !.filename = loc[c].saved_name]
      ELSE [NoResp EXCEPT !.code = StopCode(stopped_id, loc[c].saved_id)]

\* stopped_id = recording_state.stop_recording(); compare; answer
HpStop(c) ==
    /\ NoResponsePending
    /\ pc[c] = "hp_stop"
    /\ \E f \in StopFaults :
          /\ StopRecording(f)
          /\ loc' = [loc EXCEPT ![c].ret = StopReturn(is_recording, recording_id),
                                ![c].fault = IF is_recording THEN f ELSE "none"]
    /\ resp' = [resp EXCEPT ![c] = StopResponse(c, StopReturn(is_recording, recording_id))]
    /\ pc' = [pc EXCEPT ![c] = "respond"]
    /\ UNCHANGED <<wpc, wloc>>

\* ---------------------------------------------- GET /record/status handler
\* file_size = 0; if filename and exists: try getsize except: pass
StatSize(name, f, stat_fails) ==
    IF name # None /\ f.exists /\ ~stat_fails THEN f.size ELSE 0

\* elapsed = time.time() - start_time if start_time else 0
Elapsed(since) == IF since = None THEN 0 ELSE Val(since)

\* os.path.getsize is reached only when a recording is in progress and the
\* file at self.filename exists.
StatCalled == is_recording /\ filename # None /\ file.exists

\* (mutant) os.path.getsize is called outside try/except: its exception
\* leaves the handler
StatusCodeOnStatFailure(stat_fails) == IF stat_fails THEN 500 ELSE 200

\* try: file_size = os.path.getsize(...) / except: pass  -- the handler
\* returns its dict whether or not the stat raised
StatusCode(stat_fails) == 200

\* (mutant) the idle answer carries the fields the last Start left behind
IdleSnapshotStale ==
    [NoResp EXCEPT !.code = 200, !.recording_id = recording_id, !.filename = filename]

\* else: return {"is_recording": False, "recording_id": None, "filename": None}
IdleSnapshot == [NoResp EXCEPT !.code = 200]

Snapshot(stat_fails) ==
    IF is_recording
      THEN [code |-> StatusCode(stat_fails), is_recording |-> TRUE,
            recording_id |-> recording_id,
            filename |-> IF filename # None THEN Basename(filename) ELSE None,
            elapsed_seconds |-> Some(Elapsed(since_start)),
            duration_limit |-> duration, max_file_size |-> max_file_size,
            current_file_size |-> Some(StatSize(filename, file, stat_fails))]
      ELSE IdleSnapshot

\* with recording_state.lock: build the snapshot
\* (loc.fault = "raised": os.path.getsize raised inside the handler)
Status(c) ==
    /\ NoResponsePending
    /\ pc[c] = "idle"
    /\ lock = None
    /\ \E stat_fails \in BOOLEAN :
          /\ stat_fails => StatCalled
          /\ loc' = [loc EXCEPT ![c] = [NoLoc EXCEPT !.kind = "status",
                           !.fault = IF stat_fails THEN "raised" ELSE "none"]]
          /\ resp' = [resp EXCEPT ![c] = Snapshot(stat_fails)]
    /\ pc' = [pc EXCEPT ![c] = "respond"]
    /\ UNCHANGED <<variant, written_by, state_vars, lock, env_vars, wpc, wloc>>

\* ------------------------------------- RecordingState._monitor_recording
\* Monitor thread w is the thread start_recording spawned for recording id w.
\* It reads self.* fields without the lock: every read below sees the value
\* the field has at that step, whichever session wrote it.
SetW(w, f, v) == [wloc EXCEPT ![w][f] = v]

\* if elapsed >= self.duration
DurationReached(elapsed, d) == elapsed >= d

\* if file_size >= self.max_file_size
SizeReached(size, n) == size >= n

\* while self.is_recording:  (then time.sleep(1): see Tick)
WLoop(w) ==
    /\ NoResponsePending
    /\ wpc[w] = "loop"
    /\ wpc' = [wpc EXCEPT ![w] = IF is_recording THEN "sleep" ELSE "done"]
    /\ UNCHANGED <<variant, written_by, state_vars, lock, env_vars, pc, loc, resp, wloc>>

\* if self.duration is not None:
WChkDur(w) ==
    /\ NoResponsePending
    /\ wpc[w] = "chk_dur"
    /\ wpc' = [wpc EXCEPT ![w] = IF duration # None THEN "read_start" ELSE "chk_size"]
    /\ UNCHANGED <<variant, written_by, state_vars, lock, env_vars, pc, loc, resp, wloc>>

\* elapsed = time.time() - self.start_time
WReadStart(w) ==
    /\ NoResponsePending
    /\ wpc[w] = "read_start"
    /\ wloc' = SetW(w, "elapsed", Val(since_start))
    /\ wpc' = [wpc EXCEPT ![w] = "cmp_dur"]
    /\ UNCHANGED <<variant, written_by, state_vars, lock, env_vars, pc, loc, resp>>

\* if elapsed >= self.duration: self.stop_recording(); break
\* (self.duration is read again: None here is a TypeError nobody catches,
\* and the thread dies)
WCmpDur(w) ==
    /\ NoResponsePending
    /\ wpc[w] = "cmp_dur"
    /\ wpc' = [wpc EXCEPT ![w] =
                 IF duration = None THEN "dead"
                 ELSE IF DurationReached(wloc[w].elapsed, Val(duration)) THEN "stop_dur"
                 ELSE "chk_size"]
    /\ wloc' = SetW(w, "elapsed", 0)
    /\ UNCHANGED <<variant, written_by, state_vars, lock, env_vars, pc, loc, resp>>

\* if self.max_file_size is not None
WChkSize(w) ==
    /\ NoResponsePending
    /\ wpc[w] = "chk_size"
    /\ wpc' = [wpc EXCEPT ![w] = IF max_file_size # None THEN "chk_exists" ELSE "loop"]
    /\ UNCHANGED <<variant, written_by, state_vars, lock, env_vars, pc, loc, resp, wloc>>

\* ... and self.filename and os.path.exists(self.filename):
WChkExists(w) ==
    /\ NoResponsePending
    /\ wpc[w] = "chk_exists"
    /\ wpc' = [wpc EXCEPT ![w] =
                 IF filename # None /\ file.exists THEN "get_size" ELSE "loop"]
    /\ UNCHANGED <<variant, written_by, state_vars, lock, env_vars, pc, loc, resp, wloc>>

\* (mutant) os.path.getsize is called outside try/except: its exception ends
\* the monitor thread
StatErrorKillsMonitor == "dead"

\* except Exception as e: print(...)  -- the monitor goes on to the next
\* test of its loop condition
AfterStatError == "loop"

\* try: file_size = os.path.getsize(self.filename)
\* except Exception: print, go on with the loop  (the stat failed, or
\* self.filename now names a file that does not exist yet)
WGetSize(w) ==
    /\ NoResponsePending
    /\ wpc[w] = "get_size"
    /\ \/ /\ file.exists
          /\ wloc' = SetW(w, "file_size", file.size)
          /\ wpc' = [wpc EXCEPT ![w] = "cmp_size"]
       \/ /\ wloc' = wloc
          /\ wpc' = [wpc EXCEPT ![w] = AfterStatError]
    /\ UNCHANGED <<variant, written_by, state_vars, lock, env_vars, pc, loc, resp>>

\* if file_size >= self.max_file_size: self.stop_recording(); break
\* (self.max_file_size is read again: None here is a TypeError the
\* surrounding `except Exception` catches)
WCmpSize(w) ==
    /\ NoResponsePending
    /\ wpc[w] = "cmp_size"
    /\ wpc' = [wpc EXCEPT ![w] =
                 IF max_file_size # None /\ SizeReached(wloc[w].file_size, Val(max_file_size))
                   THEN "stop_size" ELSE "loop"]
    /\ wloc' = SetW(w, "file_size", 0)
    /\ UNCHANGED <<variant, written_by, state_vars, lock, env_vars, pc, loc, resp>>

\* self.stop_recording(); break
WStop(w) ==
    /\ NoResponsePending
    /\ wpc[w] \in {"stop_dur", "stop_size"}
    /\ \E f \in StopFaults : StopRecording(f)
    /\ wpc' = [wpc EXCEPT ![w] = "done"]
    /\ UNCHANGED <<pc, loc, resp, wloc>>

\* ------------------------------------------------------------ environment
\* The encoder writes the output file of the recording in progress.
FileGrow ==
    /\ NoResponsePending
    /\ is_recording
    /\ file.exists => file.size < MaxFileSize
    /\ file' = IF file.exists THEN [file EXCEPT !.size = file.size + 1]
                             ELSE [exists |-> TRUE, size |-> 0]
    /\ UNCHANGED <<variant, written_by, state_vars, lock, since_start, next_id,
                   pc, loc, resp, wpc, wloc>>

\* A monitor is between two sleeps: it runs before the clock moves on.
MonitorBusy(w) == wpc[w] \notin {"unborn", "sleep", "done", "dead"}

\* One second passes: time.time() grows by one and every time.sleep(1) returns.
Tick ==
    /\ NoResponsePending
    /\ lock = None
    /\ \A w \in Ids : ~MonitorBusy(w)
    /\ since_start' = IF since_start = None \/ Val(since_start) >= ElapsedCap
                        THEN since_start ELSE Some(Val(since_start) + 1)
    /\ wpc' = [w \in Ids |-> IF wpc[w] = "sleep" THEN "chk_dur" ELSE wpc[w]]
    /\ UNCHANGED <<variant, written_by, state_vars, lock, file, next_id,
                   pc, loc, resp, wloc>>

\* --------------------------------------------------------- specification
Next ==
    \/ \E c \in Clients :
          \/ HsCheck(c)
          \/ SrAcquire(c)
          \/ SrDuration(c)
          \/ SrMaxSize(c)
          \/ SrStartTime(c)
          \/ SrDevice(c)
          \/ HpCheck(c)
          \/ HpStop(c)
          \/ Status(c)
          \/ Respond(c)
    \/ \E w \in Ids :
          \/ WLoop(w)
          \/ WChkDur(w)
          \/ WReadStart(w)
          \/ WCmpDur(w)
          \/ WChkSize(w)
          \/ WChkExists(w)
          \/ WGetSize(w)
          \/ WCmpSize(w)
          \/ WStop(w)
    \/ FileGrow
    \/ Tick

Spec == Init /\ [][Next]_vars

\* Scheduling.  A thread that is running keeps running: the body of
\* start_recording (device calls return) and the sending of a response are
\* taken when they stay enabled; only the lock holder can be inside the body
\* and only one response is pending at a time.  The lock, when it is free
\* again and again while threads are blocked in lock.acquire(), is taken by
\* one of them: a request thread in start_recording or stop_recording, or a
\* monitor in stop_recording.  (Nothing is assumed about which one.)
HolderStep ==
    \E c \in Clients : SrDuration(c) \/ SrMaxSize(c) \/ SrStartTime(c) \/ SrDevice(c)

AcquireStep ==
    \/ \E c \in Clients : SrAcquire(c) \/ HpStop(c)
    \/ \E w \in Ids : WStop(w)

Fairness ==
    /\ WF_vars(HolderStep)
    /\ WF_vars(\E c \in Clients : Respond(c))
    /\ SF_vars(AcquireStep)

\* The service build under that scheduling (both builds take the lock at the
\* same places, with the same `with` statements).
InitService == Init /\ variant = "service"

FairSpec == InitService /\ [][Next]_vars /\ Fairness


\* ================================================================ claims
\* The steps of the model, told by what they change.
InStart == {"sr_duration", "sr_maxsize", "sr_starttime", "sr_device"}
ReadPcs == {"chk_dur", "read_start", "cmp_dur", "chk_size", "chk_exists", "get_size",
            "cmp_size"}
StopPcs == {"stop_dur", "stop_size"}

\* Thread c's start_recording call returns at this step having found a
\* recording in progress.
LosesStart(c) == pc[c] = "sr_acq" /\ pc'[c] # "sr_acq" /\ is_recording
\* Thread c's start handler runs its pre-check at this step and finds a
\* recording in progress.
LosesPreCheck(c) == pc[c] = "idle" /\ loc'[c].kind = "start" /\ is_recording
\* Thread c's stop_recording call runs at this step.
ClientStops(c) == pc[c] = "hp_stop" /\ pc'[c] = "respond"
\* Monitor w's stop_recording call runs at this step.
MonitorStops(w) == wpc[w] \in StopPcs /\ wpc'[w] = "done"
\* Monitor w reads a session field at this step.
MonitorReads(w) == wpc[w] \in ReadPcs /\ wpc'[w] # wpc[w]

HandlesNull == picam2 = None /\ encoder = None /\ output = None
HandlesSet == picam2 # None /\ encoder # None /\ output # None

\* C1: of the Start calls racing for the lock only the one that finds the
\* controller idle goes on (it holds the lock, so it is alone in the body of
\* start_recording); a Start that finds a recording in progress, in the
\* handler's pre-check or in start_recording, fails (ValueError in
\* start_recording, never a 200) and changes no session field, does not take
\* the lock and starts no monitor.
C1_RacingStarts ==
    [][\A c \in Clients :
          /\ LosesStart(c) => /\ loc'[c].exc = "ValueError"
                              /\ resp'[c].code \notin {0, 200}
                              /\ UNCHANGED <<state_vars, since_start, file, lock, wpc>>
          /\ LosesPreCheck(c) => /\ resp'[c].code \notin {0, 200}
                                 /\ UNCHANGED <<state_vars, since_start, file, lock, wpc>>
          /\ pc'[c] \in InStart => lock' = ClientLock(c) /\ ~is_recording'
          /\ (pc[c] = "sr_device" /\ resp'[c].code = 200)
                => /\ ~is_recording /\ is_recording'
                   /\ \A o \in Clients \ {c} : pc[o] \notin InStart]_vars

\* Two Starts both passed the pre-check; one is recording, the other has just
\* been refused by start_recording.
C1_Witness ==
    \E c \in Clients :
       /\ pc[c] = "respond" /\ loc[c].exc = "ValueError" /\ loc[c].rid # None
       /\ is_recording /\ recording_id # loc[c].rid

\* C2: a stop_recording call made by the monitor of session w ends no
\* session other than w.
C2_MonitorStopsOwnSession ==
    [][\A w \in Ids : (MonitorStops(w) /\ is_recording) => recording_id = Some(w)]_vars

\* C3: a Start that failed in the device has answered with an error, and the
\* controller is idle, with every device handle cleared and the lock free.
C3_FailedStartRollsBack ==
    \A c \in Clients :
       (pc[c] = "respond" /\ loc[c].exc = "DeviceError")
          => resp[c].code = 500 /\ ~is_recording /\ HandlesNull /\ lock = None

C5_HandlesIffActive ==
    lock = None => (IF is_recording THEN HandlesSet ELSE HandlesNull)

\* C6: a stop_recording call that finds a recording ends it and returns its
\* id; one that finds none returns None and changes nothing; and only a Start
\* makes the controller active again, so the Stop after a Stop finds none.
C6_StopIdempotent ==
    [][/\ \A c \in Clients :
             ClientStops(c) =>
                IF is_recording
                  THEN loc'[c].ret = recording_id /\ loc'[c].ret # None /\ ~is_recording'
                  ELSE /\ loc'[c].ret = None
                       /\ UNCHANGED <<state_vars, since_start, file, lock, wpc>>
       /\ \A w \in Ids :
             MonitorStops(w) =>
                IF is_recording
                  THEN ~is_recording'
                  ELSE UNCHANGED <<state_vars, since_start, file, lock>>
       /\ (~is_recording /\ is_recording') => \E c \in Clients : pc[c] = "sr_device"]_vars

\* A Stop found the session it meant to stop already stopped: it returned None.
C6_Witness ==
    \E c \in Clients :
       /\ pc[c] = "respond" /\ loc[c].kind = "stop"
       /\ loc[c].saved_id # None /\ loc[c].saved_id = recording_id
       /\ loc[c].ret = None /\ ~is_recording

\* C7: a stop_recording call on an active session, whether or not the device
\* stop raises, ends with the controller idle, the handles cleared and the
\* lock free, and returns the id of the session it stopped.
C7_StopSurvivesDeviceError ==
    [][/\ \A c \in Clients :
             (ClientStops(c) /\ is_recording)
                => /\ ~is_recording' /\ picam2' = None /\ encoder' = None /\ output' = None
                   /\ lock' = None
                   /\ loc'[c].ret = recording_id /\ loc'[c].ret # None
       /\ \A w \in Ids :
             (MonitorStops(w) /\ is_recording)
                => /\ ~is_recording' /\ picam2' = None /\ encoder' = None /\ output' = None
                   /\ lock' = None]_vars

\* The device stop raised inside a Stop that has returned.
C7_Witness ==
    \E c \in Clients :
       /\ pc[c] = "respond" /\ loc[c].fault = "raised"
       /\ loc[c].ret # None /\ loc[c].ret = recording_id
       /\ ~is_recording /\ HandlesNull /\ lock = None

\* C8: when the monitor of session w reads a session field and no Start is
\* between its writes, the fields are those of session w.
C8_MonitorReadsOwnSession ==
    [][\A w \in Ids : (MonitorReads(w) /\ lock = None) => recording_id = Some(w)]_vars

\* C9: a session with duration limit 2 (and no size limit) is not stopped by
\* a monitor before 2 seconds have elapsed, and is no longer active once 3
\* seconds have.
C9_DurationTwoWindow ==
    [][/\ \A w \in Ids :
             (MonitorStops(w) /\ is_recording /\ duration = Some(2) /\ max_file_size = None)
                => Val(since_start) >= 2
       /\ (is_recording' /\ duration' = Some(2)) => Val(since_start') < 3]_vars

\* C10: a session with size limit N and no duration limit is stopped by a
\* monitor only when its output file exists and holds at least N bytes.
C10_NoStopBelowSizeLimit ==
    [][\A w \in Ids :
          (MonitorStops(w) /\ is_recording /\ duration = None /\ max_file_size # None)
             => file.exists /\ file.size >= Val(max_file_size)]_vars

\* Thread c's status handler runs at this step.
StatusRuns(c) == pc[c] = "idle" /\ loc'[c].kind = "status"

\* C11: the start handler answers 409 when it found a recording in
\* progress, in its own pre-check (no id was generated) or through the
\* ValueError of start_recording, and 500 when the device failed; it answers
\* 500 for nothing else.
C11_StartErrorCodes ==
    \A c \in Clients :
       (pc[c] = "respond" /\ loc[c].kind = "start")
          => /\ loc[c].rid = None => resp[c].code = 409
             /\ loc[c].exc = "ValueError" => resp[c].code = 409
             /\ loc[c].exc = "DeviceError" => resp[c].code = 500
             /\ resp[c].code = 500 => loc[c].exc = "DeviceError"

\* C12: a stop handler whose own device stop did not raise answers 404, or
\* 200 with the id and file name of the session its stop_recording call
\* ended.
C12_StopTwoOutcomes ==
    \A c \in Clients :
       (pc[c] = "respond" /\ loc[c].kind = "stop" /\ loc[c].fault = "none")
          => \/ resp[c].code = 404
             \/ /\ resp[c].code = 200
                /\ loc[c].ret # None
                /\ resp[c].recording_id = loc[c].ret
                /\ resp[c].filename = Basename(loc[c].ret)

\* C13: a status handler that runs while no recording is in progress answers
\* is_recording false, recording_id null, filename null and nothing else,
\* whatever the session fields hold.
C13_IdleStatus ==
    [][\A c \in Clients :
          (StatusRuns(c) /\ ~is_recording)
             => /\ resp'[c].code = 200
                /\ resp'[c].is_recording = FALSE
                /\ resp'[c].recording_id = None
                /\ resp'[c].filename = None
                /\ resp'[c].elapsed_seconds = None
                /\ resp'[c].duration_limit = None
                /\ resp'[c].max_file_size = None
                /\ resp'[c].current_file_size = None]_vars

\* Status has answered while idle after a Start that failed in the device and
\* left recording_id and filename set.
C13_Witness ==
    \E c \in Clients :
       /\ pc[c] = "respond" /\ loc[c].kind = "status"
       /\ ~is_recording /\ recording_id # None /\ filename # None
       /\ wpc[Val(recording_id)] = "unborn"
       /\ resp[c].recording_id = None /\ resp[c].filename = None

\* C14: a status handler changes no session field, no file, no monitor and
\* leaves the lock free; it answers 200 also when the output file is missing
\* or os.path.getsize raised, and then reports size 0.
C14_StatusNonMutating ==
    [][\A c \in Clients :
          StatusRuns(c)
             => /\ UNCHANGED <<state_vars, since_start, file, wpc, written_by>>
                /\ lock' = None
                /\ pc'[c] = "respond"
                /\ resp'[c].code = 200
                /\ (is_recording /\ (loc'[c].fault = "raised" \/ ~file.exists))
                      => resp'[c].current_file_size = Some(0)]_vars

\* Status has answered for a recording whose non-empty output file could not
\* be stat'ed.
C14_Witness ==
    \E c \in Clients :
       /\ pc[c] = "respond" /\ loc[c].kind = "status" /\ loc[c].fault = "raised"
       /\ is_recording /\ file.exists /\ file.size > 0
       /\ resp[c].code = 200 /\ resp[c].current_file_size = Some(0)

\* Thread c's start_recording call gets a device from Picamera2() at this
\* step (the call itself did not raise).
OpensDevice(c) == pc[c] = "sr_device" /\ pc'[c] = "respond" /\ loc'[c].fault # "open"

\* C15: Picamera2() is called only when no device an earlier Start opened is
\* still open.  self.picam2 holds the device from Picamera2() on, and only
\* the paths that call picam2.stop() clear it: a handle that is still set
\* when the next device is opened is a device nobody stopped.
C15_OneDeviceOpen ==
    [][\A c \in Clients : OpensDevice(c) => picam2 = None]_vars

\* Session w is the recording in progress.
SessionActive(w) == is_recording /\ recording_id = Some(w)
\* Monitor w evaluates `while self.is_recording` at this step.
MonitorTestsLoop(w) == wpc[w] = "loop" /\ wpc'[w] # "loop"
\* Monitor w is past its sleep, reading the session fields or about to stop.
MonitorPolling(w) == wpc[w] \in ReadPcs \cup StopPcs

\* C16: a monitor that tests its loop condition when its own session is no
\* longer the recording in progress leaves the loop, whether or not another
\* session has been started since.
C16_StaleMonitorExits ==
    [][\A w \in Ids :
          (MonitorTestsLoop(w) /\ ~SessionActive(w)) => wpc'[w] = "done"]_vars

\* C17: while a recording is in progress at most one monitor is past its
\* sleep and polling it.
C17_OneMonitorPolling ==
    is_recording => Cardinality({w \in Ids : MonitorPolling(w)}) <= 1

\* C18: no monitor reads a session field while another thread is inside its
\* locked section (the monitor would have to hold the lock itself to read).
C18_MonitorReadsUnderLock ==
    [][\A w \in Ids : (MonitorReads(w) \/ MonitorTestsLoop(w)) => lock = None]_vars

\* C19: a status handler that reports a recording in progress reports the
\* fields of the record as they are, and every one of them was written by
\* the start_recording call of the session recording_id names, a call that
\* went through (its monitor was started); no Start is between its writes.
C19_StatusSeesOneSession ==
    [][\A c \in Clients :
          (StatusRuns(c) /\ is_recording)
             => /\ resp'[c].is_recording
                /\ recording_id # None
                /\ resp'[c].recording_id = recording_id
                /\ filename = recording_id
                /\ resp'[c].filename = Basename(filename)
                /\ written_by.duration = recording_id
                /\ resp'[c].duration_limit = duration
                /\ written_by.max_file_size = recording_id
                /\ resp'[c].max_file_size = max_file_size
                /\ written_by.start_time = recording_id
                /\ resp'[c].elapsed_seconds = since_start
                /\ wpc[Val(recording_id)] # "unborn"
                /\ \A d \in Clients : pc[d] \notin InStart]_vars

\* Status has reported the second session, with a duration limit, in progress.
C19_Witness ==
    \E c \in Clients :
       /\ pc[c] = "respond" /\ loc[c].kind = "status"
       /\ is_recording /\ recording_id = Some(2)
       /\ resp[c].is_recording /\ resp[c].recording_id = Some(2)
       /\ resp[c].duration_limit # None /\ resp[c].duration_limit = duration

\* Monitor w takes a step of its own other than its stop_recording call
\* (being started, and being woken by the clock, are not steps of its own).
MonitorStepsOutsideStop(w) ==
    wpc'[w] # wpc[w] /\ wpc[w] \in {"loop"} \cup ReadPcs

\* C20: a monitor step outside stop_recording writes no session field and
\* does not touch the lock; the monitor's stop_recording call leaves the lock
\* free and writes only what stop_recording writes; and while a monitor
\* sleeps the lock is free or held by a request thread.
C20_MonitorLockDiscipline ==
    [][\A w \in Ids :
          /\ MonitorStepsOutsideStop(w)
                => UNCHANGED <<state_vars, since_start, written_by, lock>>
          /\ MonitorStops(w)
                => /\ lock' = None
                   /\ UNCHANGED <<recording_id, filename, duration, max_file_size,
                                  since_start, written_by>>
          /\ wpc'[w] = "sleep"
                => \/ lock' = None
                   \/ \E c \in Clients : lock' = ClientLock(c)]_vars

\* A monitor is asleep again after a round of checks that found no limit
\* reached, and a request thread holds the lock meanwhile.
C20_Witness ==
    \E w \in Ids :
       /\ wpc[w] = "sleep" /\ since_start # None /\ Val(since_start) >= 1
       /\ \E c \in Clients : lock = ClientLock(c)

\* Monitor w takes the step it is at.
MonitorStepsAt(w, at) == wpc[w] = at /\ wpc'[w] # at

\* C21: a monitor whose size check finds the output file missing, or whose
\* os.path.getsize raises, goes back to its loop test without calling
\* stop_recording and without dying, and with the recording still in
\* progress it sleeps and polls again; after a sleep the duration check
\* comes first, and the size check is reached only from the duration check.
C21_SizeCheckTolerant ==
    [][\A w \in Ids :
          /\ (MonitorStepsAt(w, "chk_exists") /\ ~(filename # None /\ file.exists))
                => wpc'[w] = "loop"
          /\ MonitorStepsAt(w, "get_size") => wpc'[w] \in {"cmp_size", "loop"}
          /\ (MonitorStepsAt(w, "get_size") /\ ~file.exists) => wpc'[w] = "loop"
          /\ (MonitorStepsAt(w, "loop") /\ is_recording) => wpc'[w] = "sleep"
          /\ MonitorStepsAt(w, "sleep") => wpc'[w] = "chk_dur"
          /\ (wpc'[w] = "chk_size" /\ wpc[w] # "chk_size")
                => wpc[w] \in {"chk_dur", "cmp_dur"}
          /\ (wpc'[w] = "stop_size" /\ wpc[w] # "stop_size") => wpc[w] = "cmp_size"]_vars

\* The monitor of the recording in progress is back at its loop test after a
\* round of checks in which the size limit was set and the file was missing.
C21_Witness ==
    \E w \in Ids :
       /\ wpc[w] = "loop" /\ SessionActive(w)
       /\ max_file_size # None /\ ~file.exists
       /\ since_start # None /\ Val(since_start) >= 1

\* Monitor w is running: it will test its loop condition, sleep and poll, or
\* it is about to call stop_recording.
MonitorLive(w) == wpc[w] \in {"loop", "sleep"} \cup ReadPcs \cup StopPcs

\* C23: a stop handler that answers 404 or 500 has ended no recording: a
\* recording in progress when its stop_recording call ran is still in
\* progress afterwards.
C23_FailedStopStopsNothing ==
    [][\A c \in Clients :
          (ClientStops(c) /\ is_recording /\ resp'[c].code \in {404, 500})
             => is_recording']_vars

\* C24: whenever a recording is in progress and the lock is free, the
\* monitor started for that recording is running.
C24_ActiveSessionHasMonitor ==
    (is_recording /\ lock = None)
       => (recording_id # None /\ MonitorLive(Val(recording_id)))

\* The second session is in progress and watched by its own monitor after
\* the monitor of the first session has left its loop.
C24_Witness ==
    /\ is_recording /\ lock = None /\ recording_id = Some(2)
    /\ wpc[1] \in {"done", "dead"}
    /\ (duration # None \/ max_file_size # None)
    /\ MonitorLive(2)

\* Thread c is blocked on the lock inside start_recording or stop_recording.
ClientWaits(c) == pc[c] \in {"sr_acq", "hp_stop"}

\* C22: the lock is held only by a thread inside the body of
\* start_recording (which never asks for it again); whoever holds it
\* releases it; and every thread blocked on it, request thread or monitor,
\* gets through its call.
C22_LockFreedom ==
    /\ [](lock # None => \E c \in Clients : lock = ClientLock(c) /\ pc[c] \in InStart)
    /\ (lock # None) ~> (lock = None)
    /\ \A c \in Clients : ClientWaits(c) ~> (pc[c] = "respond")
    /\ \A w \in Ids : (wpc[w] \in StopPcs) ~> (wpc[w] = "done")

\* A stop handler and a monitor are both blocked on the lock while a Start
\* holds it.
C22_Witness ==
    \E c, d \in Clients : \E w \in Ids :
       /\ lock = ClientLock(c) /\ pc[c] \in InStart
       /\ pc[d] = "hp_stop"
       /\ wpc[w] \in StopPcs

====
